---- MODULE Spec2Model ----
(***************************************************************************)
(* State-machine model of src/jaxzsc/mep/mep_s1_ippo_overcooked_ff.py:     *)
(* the maximum-entropy-population (MEP) IPPO trainer for Overcooked.       *)
(*                                                                         *)
(* Reals are modelled in fixed point: rewards, values, advantages, log     *)
(* probabilities and entropies are integers in units of 1/1000.            *)
(* Parameter pytrees are modelled by identifiers: two pytrees are equal    *)
(* iff their identifiers are.  Member i of the initial population is i;    *)
(* every gradient step yields an identifier never used before.             *)
(***************************************************************************)
EXTENDS Integers, Sequences, FiniteSets, TLC

(* ------------------------------ bounds -------------------------------- *)
NumEnvs == 2
NumSteps == 2
UpdateEpochs == 2
MaxMinibatches == 3
MaxUpdates == 3
MaxCheckpointFreq == 2
EpisodeLen == 3

RewShapingHorizon == 10

(* ------------------------- program constants --------------------------- *)
PopulationSize == 2
ActionDim == 6
NumAgents == 2
GammaPct == 99
GaeLambdaPct == 95
EntPopCoeffPct == 1
Seed == 42

(* fixed-point units: hundredths for the coefficients, thousandths for values *)
Pct == 10 * 10
Milli == 10 * Pct

Agents == 0 .. (NumAgents - 1)
Actions == 0 .. (ActionDim - 1)

Min(a, b) == IF a < b THEN a ELSE b
Max(a, b) == IF a > b THEN a ELSE b

(* round(1000 * ln n) for n = 1 .. 60: the fixed-point jnp.log *)
LnTable ==
  << 0, 693, 1099, 1386, 1609, 1792, 1946, 2079, 2197, 2303,
     2398, 2485, 2565, 2639, 2708, 2773, 2833, 2890, 2944, 2996,
     3045, 3091, 3135, 3178, 3219, 3258, 3296, 3332, 3367, 3401,
     3434, 3466, 3497, 3526, 3555, 3584, 3611, 3638, 3664, 3689,
     3714, 3738, 3761, 3784, 3807, 3829, 3850, 3871, 3892, 3912,
     3932, 3951, 3970, 3989, 4007, 4025, 4043, 4060, 4078, 4094 >>

(* jnp.log of the rational num/den, in 1/1000 *)
Log(num, den) == LnTable[num] - LnTable[den]

(* --------------------------- configuration ----------------------------- *)
(* TrainConfig with the fields __post_init__ derives *)
TrainConfig(num_envs, num_steps, total_timesteps, update_epochs, num_minibatches, checkpoint_freq, population_size) ==
  [ num_envs |-> num_envs,
    num_steps |-> num_steps,
    total_timesteps |-> total_timesteps,
    update_epochs |-> update_epochs,
    num_minibatches |-> num_minibatches,
    checkpoint_freq |-> checkpoint_freq,
    population_size |-> population_size,
    num_actors |-> 2 * num_envs,
    num_updates |-> (total_timesteps \div num_steps) \div num_envs,
    minibatch_size |-> ((2 * num_envs) * num_steps) \div num_minibatches ]

(* timestep budgets worth 0 .. MaxUpdates iterations, exact or one over *)
TotalTimesteps == { k * NumSteps * NumEnvs + (k % 2) : k \in 0 .. MaxUpdates }

Configs ==
  { TrainConfig(NumEnvs, NumSteps, tt, UpdateEpochs, nmb, cf, PopulationSize) :
      tt \in TotalTimesteps, nmb \in 1 .. MaxMinibatches,
      cf \in 1 .. MaxCheckpointFreq }

(* ------------------------- random keys (jax.random) -------------------- *)
Keys == 0 .. 30
KeyMod == Cardinality(Keys)

(* rng, _rng = jax.random.split(rng): the carried key and the sub key *)
SplitRng(k) == (2 * k + 1) % KeyMod
SplitSub(k) == (2 * k + 2) % KeyMod
(* jax.random.split(k, n)[e] *)
SplitN(k, n, e) == (n * k + e + 1) % KeyMod

RECURSIVE KeyAfter(_, _)
(* the carried key after n successive two-way splits *)
KeyAfter(k, n) == IF n = 0 THEN k ELSE SplitRng(KeyAfter(k, n - 1))

(* ------------------------ network (ActorCritic) ------------------------ *)
(* Categorical probabilities as integer weights over ProbDen: a softmax    *)
(* gives every action non-zero mass.                                       *)
ProbDen == 2 * ActionDim
Probs(p, o) ==
  [ a \in Actions |-> IF a = (p + o) % ActionDim THEN ActionDim + 1 ELSE 1 ]
Value(p, o) == (((3 * p + 5 * o) % 7) - 3) * Milli

(* network.apply(params, obs_batch) -> (pi, value), one row per actor *)
NetworkApply(p, obs_batch) ==
  [ probs |-> [ j \in DOMAIN obs_batch |-> Probs(p, obs_batch[j]) ],
    value |-> [ j \in DOMAIN obs_batch |-> Value(p, obs_batch[j]) ] ]

RECURSIVE Cum(_, _)
Cum(w, a) == IF a < 0 THEN 0 ELSE w[a] + Cum(w, a - 1)

(* pi.sample(seed=key): inverse-CDF draw per row, independent across rows *)
Sample(key, probs) ==
  [ j \in DOMAIN probs |->
      LET u == (5 * key + 7 * j) % ProbDen
      IN  CHOOSE a \in Actions : Cum(probs[j], a - 1) <= u /\ u < Cum(probs[j], a) ]

(* pi.log_prob(action) *)
LogProb(probs, action) ==
  [ j \in DOMAIN probs |-> Log(probs[j][action[j]], ProbDen) ]

(* --------------------- environment (jaxmarl Overcooked) ---------------- *)
EnvReset(key) == [ t |-> 0, pos |-> key % 2 ]
EnvObs(s) == [ a \in Agents |-> 2 * s.pos + a + s.t ]

(* env.step(key, state, actions) with auto-reset at the episode horizon *)
EnvStepFn(key, s, act) ==
  LET done == (s.t + 1 >= EpisodeLen)
      moved == [ t |-> s.t + 1, pos |-> (s.pos + act[0] + act[1]) % 2 ]
      next == IF done THEN EnvReset(key) ELSE moved
      r == IF act[0] = act[1] THEN 20 * Milli ELSE 0
  IN  [ obs |-> EnvObs(next),
        state |-> next,
        reward |-> [ a \in Agents |-> r ],
        done |-> [ a \in Agents |-> IF done THEN 1 ELSE 0 ],
        all_done |-> done,
        shaped_reward |->
          [ a \in Agents |-> IF act[a] = ActionDim - 1 THEN 3 * Milli ELSE 0 ] ]

(* batchify(x, env.agents, num_actors): actor j = agent * num_envs + env *)
batchify(x, num_envs) ==
  [ j \in 0 .. (NumAgents * num_envs - 1) |-> x[j \div num_envs][j % num_envs] ]

(* unbatchify(x, env.agents, num_envs, num_agents) *)
unbatchify(x, num_envs) ==
  [ a \in Agents |-> [ e \in 0 .. (num_envs - 1) |-> x[a * num_envs + e] ] ]

(* ------------------------------ entropy -------------------------------- *)
RECURSIVE SumNegPLogP(_, _, _)
SumNegPLogP(num, den, a) ==
  IF a < 0 THEN 0
  ELSE ((num[a] * (0 - Log(num[a], den))) \div den) + SumNegPLogP(num, den, a - 1)

(* entropy(action_probs): -sum(p * log p, axis=1), per actor row *)
entropy(mix) ==
  [ j \in DOMAIN mix.num |-> SumNegPLogP(mix.num[j], mix.den, ActionDim - 1) ]

(* ------------------------------ _env_step ------------------------------ *)
(* one pass of the for loop over the population: member i's bindings of    *)
(* pi, value, action, log_prob                                              *)
PopulationMember(train_state, obs_batch, rng, i) ==
  LET out == NetworkApply(train_state.population[i], obs_batch)
      action == Sample(SplitSub(KeyAfter(rng, i)), out.probs)
  IN  [ probs |-> out.probs, value |-> out.value, action |-> action,
        log_prob |-> LogProb(out.probs, action) ]

(* the names pi, value, action, log_prob as bound after the for loop: the  *)
(* loop rebinds them on every pass, so its last pass decides them           *)
AfterLoop(trainee, members, population_size) ==
  IF population_size > 0 THEN members[population_size - 1] ELSE trainee

(* the rows jnp.delete(x, curr_agent_idx, axis=0) keeps *)
DeleteRow(population_size, curr_agent_idx) ==
  { i \in 0 .. (population_size - 1) : i # curr_agent_idx }

RECURSIVE SumRows(_, _, _, _)
SumRows(members, S, j, a) ==
  IF S = {} THEN 0
  ELSE LET i == CHOOSE x \in S : TRUE
       IN  members[i].probs[j][a] + SumRows(members, S \ {i}, j, a)

(* jnp.mean(action_probs_np, axis=0) over the kept rows, as num / den *)
MeanProbs(members, S, actors) ==
  [ num |-> [ j \in actors |-> [ a \in Actions |-> SumRows(members, S, j, a) ] ],
    den |-> ProbDen * Cardinality(S) ]

(* the mean after jnp.append of the trainee's action_probs_agent0 *)
MeanProbsNew(members, S, probs0, actors) ==
  [ num |-> [ j \in actors |->
                [ a \in Actions |-> SumRows(members, S, j, a) + probs0[j][a] ] ],
    den |-> ProbDen * (Cardinality(S) + 1) ]

(* jnp.take(x, indices) with no axis: x is flattened row-major first *)
Take(num, indices) ==
  [ j \in DOMAIN indices |->
      num[indices[j] \div ActionDim][indices[j] % ActionDim] ]

NegLog(nums, den) == [ j \in DOMAIN nums |-> 0 - Log(nums[j], den) ]

(* optax.linear_schedule(1., 0., rew_shaping_horizon) at count, in 1/1000 *)
rew_shaping_anneal(count) ==
  Milli - ((Milli * Min(Max(count, 0), RewShapingHorizon)) \div RewShapingHorizon)

(* the per-agent bonus operand of the second jax.tree.map *)
NegLogpPopNewA(neg_logp_pop_new, num_envs) ==
  [ a \in Agents |-> [ e \in 0 .. (num_envs - 1) |-> neg_logp_pop_new[a] ] ]

(* reward after both jax.tree.map calls *)
Reward(orig_reward, shaped_reward, neg_logp_pop_new, update_step, config) ==
  LET current_timestep == update_step * config.num_steps * config.num_envs
      bonus == NegLogpPopNewA(neg_logp_pop_new, config.num_envs)
  IN  [ a \in Agents |-> [ e \in 0 .. (config.num_envs - 1) |->
          orig_reward[a][e]
          + ((shaped_reward[a][e] * rew_shaping_anneal(current_timestep)) \div Milli)
          + ((bonus[a][e] * EntPopCoeffPct) \div Pct) ] ]

env_step(train_state, env_state, last_obs, update_step, rng, config) ==
  LET actors == 0 .. (config.num_actors - 1)
      envs == 0 .. (config.num_envs - 1)
      obs_batch == batchify(last_obs, config.num_envs)
      out0 == NetworkApply(train_state.params, obs_batch)
      action0 == Sample(SplitSub(rng), out0.probs)
      trainee == [ probs |-> out0.probs, value |-> out0.value, action |-> action0,
                   log_prob |-> LogProb(out0.probs, action0) ]
      action_probs_agent0 == out0.probs
      actions == action0
      rng1 == SplitRng(rng)
      members == [ i \in 0 .. (config.population_size - 1) |->
                     PopulationMember(train_state, obs_batch, rng1, i) ]
      last == AfterLoop(trainee, members, config.population_size)
      rng2 == KeyAfter(rng1, config.population_size)
      kept == DeleteRow(config.population_size, train_state.curr_agent_idx)
      action_probs_pop_np == MeanProbs(members, kept, actors)
      action_probs_pop_np_new == MeanProbsNew(members, kept, action_probs_agent0, actors)
      entropy_pop == entropy(action_probs_pop_np)
      entropy_pop_new == entropy(action_probs_pop_np_new)
      sampled_action_prob_pop_np == Take(action_probs_pop_np.num, actions)
      neg_logp_pop == NegLog(sampled_action_prob_pop_np, action_probs_pop_np.den)
      sampled_action_prob_pop_np_new == Take(action_probs_pop_np_new.num, actions)
      neg_logp_pop_new == NegLog(sampled_action_prob_pop_np_new, action_probs_pop_np_new.den)
      env_act == unbatchify(last.action, config.num_envs)
      rng3 == SplitRng(rng2)
      stepped == [ e \in envs |->
                     EnvStepFn(SplitN(SplitSub(rng2), config.num_envs, e), env_state[e],
                               [ a \in Agents |-> env_act[a][e] ]) ]
      obsv == [ a \in Agents |-> [ e \in envs |-> stepped[e].obs[a] ] ]
      orig_reward == [ a \in Agents |-> [ e \in envs |-> stepped[e].reward[a] ] ]
      shaped_reward == [ a \in Agents |-> [ e \in envs |-> stepped[e].shaped_reward[a] ] ]
      done == [ a \in Agents |-> [ e \in envs |-> stepped[e].done[a] ] ]
      reward == Reward(orig_reward, shaped_reward, neg_logp_pop_new, update_step, config)
  IN  [ env_state |-> [ e \in envs |-> stepped[e].state ],
        last_obs |-> obsv,
        rng |-> rng3,
        transition |->
          [ done |-> batchify(done, config.num_envs),
            action |-> last.action,
            value |-> last.value,
            reward |-> batchify(reward, config.num_envs),
            log_prob |-> last.log_prob,
            obs |-> obs_batch,
            neg_logp_pop_new |-> neg_logp_pop_new,
            orig_reward |-> batchify(orig_reward, config.num_envs),
            shaped_reward |-> batchify(shaped_reward, config.num_envs),
            entropy_pop_delta |-> [ j \in actors |-> entropy_pop_new[j] - entropy_pop[j] ],
            neg_logp_pop_delta |-> [ j \in actors |-> neg_logp_pop_new[j] - neg_logp_pop[j] ] ],
        locals |->
          [ actions |-> actions,
            action_probs_agent0 |-> action_probs_agent0,
            action_probs_pop_np |-> action_probs_pop_np,
            action_probs_pop_np_new |-> action_probs_pop_np_new,
            sampled_action_prob_pop_np |-> sampled_action_prob_pop_np,
            sampled_action_prob_pop_np_new |-> sampled_action_prob_pop_np_new,
            neg_logp_pop |-> neg_logp_pop,
            env_act |-> env_act ] ]

(* ---------------------------- _calculate_gae --------------------------- *)
(* _get_advantages without the (1 - done) mask on the carried gae *)
get_advantages_unmasked(gae_and_next_value, transition) ==
  LET gae == gae_and_next_value.gae
      next_value == gae_and_next_value.next_value
      delta == [ j \in DOMAIN gae |->
                   transition.reward[j]
                   + ((GammaPct * next_value[j]) \div Pct) * (1 - transition.done[j])
                   - transition.value[j] ]
      new_gae == [ j \in DOMAIN gae |->
                     delta[j] + ((GammaPct * GaeLambdaPct * gae[j]) \div (Pct * Pct)) ]
  IN  [ carry |-> [ gae |-> new_gae, next_value |-> transition.value ],
        out |-> new_gae ]

get_advantages(gae_and_next_value, transition) ==
  LET gae == gae_and_next_value.gae
      next_value == gae_and_next_value.next_value
      delta == [ j \in DOMAIN gae |->
                   transition.reward[j]
                   + ((GammaPct * next_value[j]) \div Pct) * (1 - transition.done[j])
                   - transition.value[j] ]
      new_gae == [ j \in DOMAIN gae |->
                     delta[j]
                     + ((GammaPct * GaeLambdaPct * (1 - transition.done[j]) * gae[j])
                          \div (Pct * Pct)) ]
  IN  [ carry |-> [ gae |-> new_gae, next_value |-> transition.value ],
        out |-> new_gae ]

RECURSIVE ScanReverse(_, _, _)
(* jax.lax.scan(_get_advantages, init, traj_batch, reverse=True) from row t *)
ScanReverse(traj_batch, t, init) ==
  IF t > Len(traj_batch) THEN [ carry |-> init, outs |-> << >> ]
  ELSE LET rest == ScanReverse(traj_batch, t + 1, init)
           r == get_advantages(rest.carry, traj_batch[t])
       IN  [ carry |-> r.carry, outs |-> << r.out >> \o rest.outs ]

calculate_gae(traj_batch, last_value) ==
  LET init == [ gae |-> [ j \in DOMAIN last_value |-> 0 ], next_value |-> last_value ]
      advantages == ScanReverse(traj_batch, 1, init).outs
  IN  [ advantages |-> advantages,
        targets |-> [ t \in 1 .. Len(traj_batch) |->
                        [ j \in DOMAIN last_value |->
                            advantages[t][j] + traj_batch[t].value[j] ] ] ]

(* ------------------------------ _update_epoch -------------------------- *)
(* BatchSizeAssert comparing with <=: floor division makes it always pass *)
BatchSizeAssertAtMost(config) ==
  config.minibatch_size * config.num_minibatches <= config.num_steps * config.num_actors

(* the assert of _update_epoch, evaluated when jax.jit traces _update_step *)
BatchSizeAssert(config) ==
  config.minibatch_size * config.num_minibatches = config.num_steps * config.num_actors

(* jax.random.permutation(key, n): a bijection on 0 .. n-1 chosen by key *)
Permutation(key, n) ==
  [ k \in 0 .. (n - 1) |-> ((IF key % 2 = 0 THEN 1 ELSE n - 1) * k + key) % n ]

(* the batch positions (t * num_actors + j) of each minibatch: permute,     *)
(* then reshape to [num_minibatches, -1]                                     *)
Minibatches(config, key) ==
  LET batch_size == config.minibatch_size * config.num_minibatches
      permutation == Permutation(key, batch_size)
      row == batch_size \div config.num_minibatches
  IN  [ m \in 0 .. (config.num_minibatches - 1) |->
          [ r \in 1 .. row |-> permutation[m * row + (r - 1)] ] ]

(* linear_schedule annealing per minibatch step instead of per iteration *)
linear_schedule_per_step(count, config) ==
  [ num |-> config.num_updates * config.num_minibatches * config.update_epochs - count,
    den |-> config.num_updates * config.num_minibatches * config.update_epochs ]

(* linear_schedule(count): the factor multiplying config.lr, as num / den *)
linear_schedule(count, config) ==
  [ num |-> config.num_updates
              - (count \div (config.num_minibatches * config.update_epochs)),
    den |-> config.num_updates ]

(* train_state.apply_gradients(grads): a new parameter pytree, the          *)
(* optimizer's count and the TrainState step advanced by one. Adam folds    *)
(* the gradient, taken at the current trainee's parameters, into its moment *)
(* estimates: mu is the set of trainee indices whose gradients the moments  *)
(* (mu and nu alike) carry                                                  *)
apply_gradients(train_state, config) ==
  [ train_state EXCEPT
      !.params = config.population_size + train_state.opt_state.count,
      !.opt_state = [ count |-> train_state.opt_state.count + 1,
                      mu |-> train_state.opt_state.mu
                               \cup {train_state.curr_agent_idx} ],
      !.step = train_state.step + 1 ]

(* -------------------------------- rollout ------------------------------ *)
RECURSIVE RolloutLoop(_, _, _, _, _, _)
(* jax.lax.while_loop(_cond_fn, _body_fn, carry) *)
RolloutLoop(rng, env_state, stats, last_obs, done, params) ==
  IF done THEN stats
  ELSE LET rng_action == (3 * rng + 2) % KeyMod
           rng_step == (3 * rng + 3) % KeyMod
           obs_batch == [ a \in Agents |-> last_obs[a] ]
           pi == NetworkApply(params, obs_batch)
           action == Sample(rng_action, pi.probs)
           out == EnvStepFn(rng_step, env_state, action)
       IN  RolloutLoop((3 * rng + 1) % KeyMod, out.state,
                       [ reward |-> stats.reward + out.reward[0],
                         length |-> stats.length + 1 ],
                       out.obs, out.all_done, params)

rollout(rng, params) ==
  LET state == EnvReset(SplitSub(rng))
  IN  RolloutLoop(rng, state, [ reward |-> 0, length |-> 0 ], EnvObs(state), FALSE, params)

(* ------------------------------- train() ------------------------------ *)
(* jnp.arange(population_size) *)
AllAgentIdcs(population_size) == [ k \in 1 .. population_size |-> k - 1 ]

(* all_agent_idcs[all_agent_idcs != idx] *)
OtherAgentIdcs(population_size, idx) ==
  SelectSeq(AllAgentIdcs(population_size), LAMBDA x : x # idx)

(* d[k] = v on a Python dict *)
DictSet(d, k, v) == [ x \in (DOMAIN d) \cup {k} |-> IF x = k THEN v ELSE d[x] ]

(* RotateTrainState with other_agent_idcs taken from the previous trainee *)
RotateTrainStateOldOthers(ts, old_idx, new_param_idx, population_size) ==
  [ ts EXCEPT
      !.population = DictSet(ts.population, old_idx, ts.params),
      !.params = ts.population[new_param_idx],
      !.curr_agent_idx = new_param_idx,
      !.other_agent_idcs = OtherAgentIdcs(population_size, old_idx) ]

(* RotateTrainState writing the trained parameters to the newly drawn slot *)
RotateTrainStateNewSlot(ts, old_idx, new_param_idx, population_size) ==
  [ ts EXCEPT
      !.population = DictSet(ts.population, new_param_idx, ts.params),
      !.params = ts.population[new_param_idx],
      !.curr_agent_idx = new_param_idx,
      !.other_agent_idcs = OtherAgentIdcs(population_size, new_param_idx) ]

(* RotateTrainState with the optimizer state initialised anew *)
RotateTrainStateFreshOptimizer(ts, old_idx, new_param_idx, population_size) ==
  [ ts EXCEPT
      !.population = DictSet(ts.population, old_idx, ts.params),
      !.params = ts.population[new_param_idx],
      !.opt_state = [ count |-> 0, mu |-> {} ],
      !.curr_agent_idx = new_param_idx,
      !.other_agent_idcs = OtherAgentIdcs(population_size, new_param_idx) ]

(* the population update of the loop body: the entry to train next is read  *)
(* before the trained parameters are written back                           *)
RotateTrainState(ts, old_idx, new_param_idx, population_size) ==
  LET new_params_to_train == ts.population[new_param_idx]
      population == DictSet(ts.population, old_idx, ts.params)
  IN  [ ts EXCEPT
          !.population = population,
          !.params = new_params_to_train,
          !.curr_agent_idx = new_param_idx,
          !.other_agent_idcs = OtherAgentIdcs(population_size, new_param_idx) ]

(* ShouldCheckpoint without the i != 0 test *)
ShouldCheckpointAtZero(iter, config) == iter % config.checkpoint_freq = 0

(* if i % config.checkpoint_freq == 0 and i != 0 *)
ShouldCheckpoint(iter, config) == iter % config.checkpoint_freq = 0 /\ iter # 0

(* the pickle.dump calls of one checkpoint, in order of p *)
CheckpointFiles(ts, iter, key, config) ==
  [ k \in 1 .. config.population_size |->
      LET params == ts.population[k - 1]
      IN  [ p |-> k - 1, i |-> iter, total_r |-> rollout(key, params).reward,
            actor_params |-> params ] ]

Unbound == [ bound |-> FALSE, update_step |-> 0, env_step |-> 0 ]

VARIABLES
  config,          \* TrainConfig
  pc,              \* position in train()
  error,           \* the exception that ended train(), or "" 
  traced,          \* jax.jit has traced _update_step
  i,               \* the for loop's index
  old_param_idx,
  train_state,     \* PopulationTrainState
  env_state, last_obs, update_step, rng,   \* the rest of runner_state
  eval_rng,        \* train()'s own rng, handed to every evaluation rollout
  traj_batch,      \* the Transitions of the running scan, oldest first
  locals,          \* local variables of the last _env_step call
  last_val,        \* the bootstrap value of the post-rollout observation
  advantages, targets,
  epoch, mb,       \* positions of the two update scans
  minibatches,
  lr,              \* the schedule's factor at the last gradient step
  metric,
  saved,           \* the checkpoint files written, in order
  n_rollouts       \* evaluation rollouts run

vars == << config, pc, error, traced, i, old_param_idx, train_state, env_state,
           last_obs, update_step, rng, eval_rng, traj_batch, locals, last_val,
           advantages, targets, epoch, mb, minibatches, lr, metric, saved,
           n_rollouts >>

(* train() up to the for loop, for one configuration and first draw *)
InitWith(cfg, param_idx) ==
  LET rng0 == KeyAfter(Seed % KeyMod, cfg.population_size)
      sub == SplitSub(rng0)
      envs == 0 .. (cfg.num_envs - 1)
      state0 == [ e \in envs |-> EnvReset(SplitN(sub, cfg.num_envs, e)) ]
  IN  /\ config = cfg
      /\ pc = "loop"
      /\ error = ""
      /\ traced = FALSE
      /\ i = 0
      /\ old_param_idx = param_idx
      /\ train_state =
           [ params |-> param_idx,
             opt_state |-> [ count |-> 0, mu |-> {} ],
             step |-> 0,
             population |-> [ k \in 0 .. (cfg.population_size - 1) |-> k ],
             other_agent_idcs |-> OtherAgentIdcs(cfg.population_size, param_idx),
             curr_agent_idx |-> param_idx ]
      /\ env_state = state0
      /\ last_obs = [ a \in Agents |-> [ e \in envs |-> EnvObs(state0[e])[a] ] ]
      /\ update_step = 0
      /\ rng = sub
      /\ eval_rng = SplitRng(rng0)
      /\ traj_batch = << >>
      /\ locals = << >>
      /\ last_val = << >>
      /\ advantages = << >>
      /\ targets = << >>
      /\ epoch = 0
      /\ mb = 0
      /\ minibatches = << >>
      /\ lr = << >>
      /\ metric = Unbound
      /\ saved = << >>
      /\ n_rollouts = 0

Init ==
  \E cfg \in Configs, param_idx \in 0 .. (PopulationSize - 1) :
    InitWith(cfg, param_idx)

(* for i in range(num_updates): jitted_update_step(runner_state); the first *)
(* call traces _update_step, which evaluates its assert                     *)
JittedUpdateStep ==
  /\ pc = "loop"
  /\ i < config.num_updates
  /\ IF ~traced /\ ~BatchSizeAssert(config)
       THEN /\ pc' = "error"
            /\ error' = "AssertionError"
            /\ UNCHANGED << traced, traj_batch, advantages, targets >>
       ELSE /\ pc' = "env_step"
            /\ traced' = TRUE
            /\ traj_batch' = << >>
            /\ advantages' = << >>
            /\ targets' = << >>
            /\ UNCHANGED error
  /\ UNCHANGED << config, i, old_param_idx, train_state, env_state, last_obs,
                  update_step, rng, eval_rng, locals, last_val, epoch, mb,
                  minibatches, lr, metric, saved, n_rollouts >>

(* one _env_step of the rollout scan *)
EnvStep ==
  /\ pc = "env_step"
  /\ Len(traj_batch) < config.num_steps
  /\ LET r == env_step(train_state, env_state, last_obs, update_step, rng, config)
     IN  /\ env_state' = r.env_state
         /\ last_obs' = r.last_obs
         /\ rng' = r.rng
         /\ traj_batch' = Append(traj_batch, r.transition)
         /\ locals' = r.locals
  /\ pc' = IF Len(traj_batch) + 1 = config.num_steps THEN "gae" ELSE "env_step"
  /\ UNCHANGED << config, error, traced, i, old_param_idx, train_state, update_step,
                  eval_rng, last_val, advantages, targets, epoch, mb, minibatches, lr, metric,
                  saved, n_rollouts >>

(* last_val and _calculate_gae *)
CalculateGae ==
  /\ pc = "gae"
  /\ LET v == NetworkApply(train_state.params,
                           batchify(last_obs, config.num_envs)).value
         g == calculate_gae(traj_batch, v)
     IN  /\ last_val' = v
         /\ advantages' = g.advantages
         /\ targets' = g.targets
  /\ epoch' = 0
  /\ mb' = 0
  /\ pc' = "update_epoch"
  /\ UNCHANGED << config, error, traced, i, old_param_idx, train_state, env_state,
                  last_obs, update_step, rng, eval_rng, traj_batch, locals,
                  minibatches, lr, metric, saved, n_rollouts >>

(* _update_epoch up to its scan: shuffle the batch and cut the minibatches *)
UpdateEpoch ==
  /\ pc = "update_epoch"
  /\ epoch < config.update_epochs
  /\ rng' = SplitRng(rng)
  /\ minibatches' = Minibatches(config, SplitSub(rng))
  /\ mb' = 0
  /\ pc' = "update_minbatch"
  /\ UNCHANGED << config, error, traced, i, old_param_idx, train_state, env_state,
                  last_obs, update_step, eval_rng, traj_batch, locals, last_val, advantages,
                  targets, epoch, lr, metric, saved, n_rollouts >>

(* one _update_minbatch: a gradient step on minibatch mb *)
UpdateMinbatch ==
  /\ pc = "update_minbatch"
  /\ mb < config.num_minibatches
  /\ lr' = linear_schedule(train_state.opt_state.count, config)
  /\ train_state' = apply_gradients(train_state, config)
  /\ mb' = mb + 1
  /\ epoch' = IF mb + 1 = config.num_minibatches THEN epoch + 1 ELSE epoch
  /\ pc' = IF mb + 1 < config.num_minibatches THEN "update_minbatch"
           ELSE IF epoch + 1 < config.update_epochs THEN "update_epoch"
           ELSE "metrics"
  /\ UNCHANGED << config, error, traced, i, old_param_idx, env_state, last_obs,
                  update_step, rng, eval_rng, traj_batch, locals, last_val, advantages,
                  targets, minibatches, metric, saved, n_rollouts >>

(* the tail of _update_step: the counter, the metrics, the new runner_state *)
UpdateStepReturn ==
  /\ pc = "metrics"
  /\ update_step' = update_step + 1
  /\ metric' = [ bound |-> TRUE,
                 update_step |-> update_step + 1,
                 env_step |-> (update_step + 1) * config.num_steps * config.num_envs ]
  /\ pc' = "rotate"
  /\ UNCHANGED << config, error, traced, i, old_param_idx, train_state, env_state,
                  last_obs, rng, eval_rng, traj_batch, locals, last_val, advantages, targets,
                  epoch, mb, minibatches, lr, saved, n_rollouts >>

(* the rest of the loop body: the population update and the checkpoint *)
Rotate ==
  /\ pc = "rotate"
  /\ \E new_param_idx \in 0 .. (config.population_size - 1) :
       LET ts == RotateTrainState(train_state, old_param_idx, new_param_idx,
                                  config.population_size)
       IN  /\ train_state' = ts
           /\ old_param_idx' = new_param_idx
           /\ IF ShouldCheckpoint(i, config)
                THEN /\ saved' = saved \o CheckpointFiles(ts, i, eval_rng, config)
                     /\ n_rollouts' = n_rollouts + config.population_size
                ELSE UNCHANGED << saved, n_rollouts >>
  /\ i' = i + 1
  /\ pc' = "loop"
  /\ UNCHANGED << config, error, traced, env_state, last_obs, update_step, rng,
                  eval_rng, traj_batch, locals, last_val, advantages, targets, epoch, mb,
                  minibatches, lr, metric >>

(* return {"runner_state": runner_state, "metrics": metric} *)
Return ==
  /\ pc = "loop"
  /\ i >= config.num_updates
  /\ IF metric.bound
       THEN pc' = "done" /\ UNCHANGED error
       ELSE pc' = "error" /\ error' = "UnboundLocalError"
  /\ UNCHANGED << config, traced, i, old_param_idx, train_state, env_state, last_obs,
                  update_step, rng, eval_rng, traj_batch, locals, last_val, advantages, targets,
                  epoch, mb, minibatches, lr, metric, saved, n_rollouts >>

Next ==
  \/ JittedUpdateStep
  \/ EnvStep
  \/ CalculateGae
  \/ UpdateEpoch
  \/ UpdateMinbatch
  \/ UpdateStepReturn
  \/ Rotate
  \/ Return

Spec == Init /\ [][Next]_vars

(* ------------------- _calculate_gae on arbitrary batches --------------- *)
MaxGaeSteps == 3
GaeRewards == { 0, 3 * Milli }
GaeValues == { 0 - Milli, 2 * Milli }
GaeTransitions ==
  [ done : [ {0} -> {0, 1} ], value : [ {0} -> GaeValues ], reward : [ {0} -> GaeRewards ] ]

(* a trajectory batch of one actor and a bootstrap value, about to be       *)
(* handed to _calculate_gae                                                  *)
InitGae ==
  \E T \in 1 .. MaxGaeSteps :
    \E traj \in [ 1 .. T -> GaeTransitions ], v \in [ {0} -> GaeValues ] :
      LET cfg == TrainConfig(NumEnvs, T, T * NumEnvs, UpdateEpochs, 1, 1, PopulationSize)
          envs == 0 .. (cfg.num_envs - 1)
          state0 == [ e \in envs |-> EnvReset(e) ]
      IN  /\ config = cfg
          /\ pc = "gae_call"
          /\ error = ""
          /\ traced = TRUE
          /\ i = 0
          /\ old_param_idx = 0
          /\ train_state =
               [ params |-> 0, opt_state |-> [ count |-> 0, mu |-> {} ], step |-> 0,
                 population |-> [ k \in 0 .. (cfg.population_size - 1) |-> k ],
                 other_agent_idcs |-> OtherAgentIdcs(cfg.population_size, 0),
                 curr_agent_idx |-> 0 ]
          /\ env_state = state0
          /\ last_obs = [ a \in Agents |-> [ e \in envs |-> EnvObs(state0[e])[a] ] ]
          /\ update_step = 0
          /\ rng = 0
          /\ eval_rng = 0
          /\ traj_batch = traj
          /\ locals = << >>
          /\ last_val = v
          /\ advantages = << >>
          /\ targets = << >>
          /\ epoch = 0
          /\ mb = 0
          /\ minibatches = << >>
          /\ lr = << >>
          /\ metric = Unbound
          /\ saved = << >>
          /\ n_rollouts = 0

(* advantages, targets = _calculate_gae(traj_batch, last_val) *)
CalculateGaeCall ==
  /\ pc = "gae_call"
  /\ LET g == calculate_gae(traj_batch, last_val)
     IN  /\ advantages' = g.advantages
         /\ targets' = g.targets
  /\ pc' = "gae_done"
  /\ UNCHANGED << config, error, traced, i, old_param_idx, train_state, env_state,
                  last_obs, update_step, rng, eval_rng, traj_batch, locals, last_val,
                  epoch, mb, minibatches, lr, metric, saved, n_rollouts >>

NextGae == CalculateGaeCall

SpecGae == InitGae /\ [][NextGae]_vars

(* ================================ claims =============================== *)
Range(f) == { f[x] : x \in DOMAIN f }

(* C1: in every state of train() the population has exactly population_size *)
(* entries keyed 0 .. population_size-1, curr_agent_idx is one of the keys, *)
(* and other_agent_idcs lists every key except curr_agent_idx, each once.   *)
C1_PopulationInvariant ==
  LET keys == DOMAIN train_state.population
  IN  /\ keys = 0 .. (config.population_size - 1)
      /\ Cardinality(keys) = config.population_size
      /\ train_state.curr_agent_idx \in keys
      /\ Range(train_state.other_agent_idcs) = keys \ {train_state.curr_agent_idx}
      /\ Len(train_state.other_agent_idcs) = config.population_size - 1
      /\ train_state.curr_agent_idx \notin Range(train_state.other_agent_idcs)

(* two iterations done, the trainee index changed in between: both slots    *)
(* hold trained parameters                                                   *)
C1_Witness ==
  /\ i >= 2
  /\ pc = "loop"
  /\ \A k \in DOMAIN train_state.population :
       train_state.population[k] >= config.population_size

(* C2: at the start of every training iteration train_state.params is the   *)
(* population entry at curr_agent_idx, also when the drawn index repeats.   *)
C2_TraineeIsPopulationEntry ==
  (pc = "loop" /\ i < config.num_updates)
    => train_state.params = train_state.population[train_state.curr_agent_idx]

LastTransition == traj_batch[Len(traj_batch)]
InRollout == pc \in {"env_step", "gae"} /\ Len(traj_batch) > 0

(* C3: the action given to the environment and stored in the Transition is  *)
(* the trainee's sampled action, and the stored log_prob and value are the  *)
(* trainee's.                                                                *)
C3_TraineeActs ==
  InRollout =>
    LET tr == LastTransition
        pi == NetworkApply(train_state.params, tr.obs)
    IN  /\ tr.action = locals.actions
        /\ locals.env_act = unbatchify(locals.actions, config.num_envs)
        /\ tr.value = pi.value
        /\ tr.log_prob = LogProb(pi.probs, locals.actions)

(* C4: for every actor j the probability behind neg_logp_pop[j] and         *)
(* neg_logp_pop_new[j] is entry (j, actions[j]) of the respective mix.      *)
C4_OwnRowLookup ==
  InRollout =>
    \A j \in DOMAIN locals.actions :
      /\ locals.sampled_action_prob_pop_np[j]
           = locals.action_probs_pop_np.num[j][locals.actions[j]]
      /\ locals.sampled_action_prob_pop_np_new[j]
           = locals.action_probs_pop_np_new.num[j][locals.actions[j]]

(* C5: for every actor the stored reward is original reward + anneal weight *)
(* x shaping reward + ent_pop_coeff x neg_logp_pop_new of that same actor.  *)
C5_OwnBonus ==
  InRollout =>
    LET tr == LastTransition
        w == rew_shaping_anneal(update_step * config.num_steps * config.num_envs)
    IN  \A j \in DOMAIN tr.reward :
          tr.reward[j] = tr.orig_reward[j]
                         + ((tr.shaped_reward[j] * w) \div Milli)
                         + ((tr.neg_logp_pop_new[j] * EntPopCoeffPct) \div Pct)

BatchPositions == 0 .. (config.num_steps * config.num_actors - 1)
BatchMismatch ==
  config.minibatch_size * config.num_minibatches # config.num_steps * config.num_actors

(* C6: every update epoch cuts the num_steps x num_actors batch positions   *)
(* into exactly num_minibatches minibatches of the same non-zero size       *)
(* minibatch_size that are pairwise disjoint and cover every position once; *)
(* a configuration whose minibatch_size x num_minibatches differs from      *)
(* num_steps x num_actors ends in a fatal error before any environment step *)
(* or parameter update: its first iteration raises the AssertionError.      *)
C6_MinibatchPartition ==
  /\ pc = "update_minbatch" =>
       /\ DOMAIN minibatches = 0 .. (config.num_minibatches - 1)
       /\ \A m \in DOMAIN minibatches :
            /\ Len(minibatches[m]) = config.minibatch_size
            /\ Len(minibatches[m]) > 0
       /\ \A q \in BatchPositions :
            Cardinality({ c \in (DOMAIN minibatches) \X (1 .. config.minibatch_size) :
                            minibatches[c[1]][c[2]] = q }) = 1
  /\ BatchMismatch =>
       /\ pc \in {"loop", "error"}
       /\ i = 0
       /\ update_step = 0
       /\ traj_batch = << >>
       /\ train_state.opt_state.count = 0
       /\ \A e \in DOMAIN env_state : env_state[e].t = 0
       /\ (pc = "error" /\ config.num_updates > 0) => error = "AssertionError"

(* the second epoch of a later iteration, cut into more than one minibatch *)
C6_Witness ==
  /\ pc = "update_minbatch"
  /\ mb = 0
  /\ epoch = 1
  /\ i >= 1
  /\ config.num_minibatches >= 2

IsMultiple(n, d) == \E k \in 0 .. n : n = k * d

(* C7: a checkpoint is taken at loop index i iff i is non-zero and a        *)
(* multiple of checkpoint_freq; it evaluates every member by one rollout    *)
(* and writes one file per member, holding the member's population entry    *)
(* after this iteration's reinsertion, tagged with i and the evaluation     *)
(* reward; no other step writes a file or runs an evaluation.               *)
C7_CheckpointRule ==
  [][ IF pc = "rotate" /\ i # 0 /\ IsMultiple(i, config.checkpoint_freq)
        THEN /\ Len(saved') = Len(saved) + config.population_size
             /\ SubSeq(saved', 1, Len(saved)) = saved
             /\ n_rollouts' = n_rollouts + config.population_size
             /\ train_state'.population[old_param_idx] = train_state.params
             /\ \A q \in 0 .. (config.population_size - 1) :
                  LET f == saved'[Len(saved) + q + 1]
                  IN  /\ f.p = q
                      /\ f.i = i
                      /\ f.actor_params = train_state'.population[q]
                      /\ f.total_r = rollout(eval_rng, train_state'.population[q]).reward
        ELSE saved' = saved /\ n_rollouts' = n_rollouts ]_vars

(* two checkpoints written, the later one holding trained parameters *)
C7_Witness ==
  /\ Len(saved) = 2 * config.population_size
  /\ saved[1].i # saved[Len(saved)].i
  /\ \E k \in DOMAIN saved : saved[k].actor_params >= config.population_size

(* C8: train() returns after exactly num_updates iterations with the final  *)
(* runner state and the last iteration's metrics; after k iterations        *)
(* update_step = k and env_step = k x num_steps x num_envs.  Read for the   *)
(* configurations the batch-size assert accepts.                            *)
C8_ReturnsAfterNumUpdates ==
  ~BatchMismatch =>
    /\ pc # "error"
    /\ i <= config.num_updates
    /\ pc \in {"loop", "done"} => update_step = i
    /\ metric.bound =>
         /\ metric.update_step = update_step
         /\ metric.env_step = update_step * config.num_steps * config.num_envs
    /\ pc = "done" =>
         /\ i = config.num_updates
         /\ update_step = config.num_updates
         /\ metric.bound

PlannedSteps == config.num_updates * config.update_epochs * config.num_minibatches

(* C9 as claimed: the factor at every gradient step is 1 - c / T, c the     *)
(* gradient steps completed before it, T the planned number of steps.       *)
C9_LrPerMinibatchStep ==
  train_state.opt_state.count > 0 =>
    lr.num * PlannedSteps = (PlannedSteps - (train_state.opt_state.count - 1)) * lr.den

(* the loop index of the iteration the last gradient step belonged to *)
LastStepIteration ==
  IF pc \in {"update_epoch", "update_minbatch", "metrics", "rotate"}
     /\ (epoch > 0 \/ mb > 0)
  THEN i ELSE i - 1

(* C9, amended: the factor at every gradient step is 1 - k / num_updates,   *)
(* k = floor(c / (num_minibatches x update_epochs)) being the number of     *)
(* iterations completed before the step: constant within an iteration.      *)
C9_LrPerIteration ==
  train_state.opt_state.count > 0 =>
    /\ lr.den = config.num_updates
    /\ lr.num = config.num_updates - LastStepIteration
    /\ LastStepIteration
         = (train_state.opt_state.count - 1)
             \div (config.num_minibatches * config.update_epochs)

(* a gradient step that is not the first of its iteration, in a later       *)
(* iteration, after the trainee was rotated                                 *)
C9_Witness ==
  /\ pc = "update_minbatch"
  /\ i >= 1
  /\ mb >= 1
  /\ train_state.opt_state.count > config.num_minibatches * config.update_epochs
  /\ lr.num < lr.den

(* C10: the advantages satisfy, for every actor and from the last timestep  *)
(* back, delta_t = reward_t + gamma next_value_t (1 - done_t) - value_t and *)
(* gae_t = delta_t + gamma lambda (1 - done_t) gae_{t+1}, gae_T = 0,        *)
(* next_value the bootstrap value at the last timestep and value_{t+1}      *)
(* before; target_t = gae_t + value_t; done_t = 1 gives reward_t - value_t. *)
C10_GaeRecurrence ==
  (Len(advantages) > 0 /\ Len(advantages) = Len(traj_batch)) =>
    \A t \in 1 .. Len(traj_batch) :
      \A j \in DOMAIN last_val :
        LET T == Len(traj_batch)
            tr == traj_batch[t]
            next_value == IF t = T THEN last_val[j] ELSE traj_batch[t + 1].value[j]
            next_gae == IF t = T THEN 0 ELSE advantages[t + 1][j]
            delta == tr.reward[j]
                     + ((GammaPct * next_value) \div Pct) * (1 - tr.done[j])
                     - tr.value[j]
        IN  /\ advantages[t][j]
                 = delta + ((GammaPct * GaeLambdaPct * (1 - tr.done[j]) * next_gae)
                              \div (Pct * Pct))
            /\ targets[t][j] = advantages[t][j] + tr.value[j]
            /\ tr.done[j] = 1 => advantages[t][j] = tr.reward[j] - tr.value[j]

(* an episode end in the middle of the batch, with a non-zero advantage     *)
(* after it that the masked step must not see                               *)
C10_Witness ==
  /\ pc = "gae_done"
  /\ Len(traj_batch) = 3
  /\ traj_batch[1].done[0] = 0
  /\ traj_batch[2].done[0] = 1
  /\ advantages[3][0] # 0
  /\ advantages[1][0] # traj_batch[1].reward[0] - traj_batch[1].value[0]

(* the steps of one _update_step call, from the jitted call to its return *)
InUpdateStep ==
  pc \in {"loop", "env_step", "gae", "update_epoch", "update_minbatch", "metrics"}

(* C11: every step of an _update_step call leaves the population,           *)
(* curr_agent_idx and other_agent_idcs as they were (and nothing of train() *)
(* outside the runner_state changes); the population changes only in the    *)
(* rotation between two calls, which overwrites the slot of the previous    *)
(* trainee index with the trained parameters and leaves every other slot.   *)
C11_UpdateStepFrame ==
  [][ /\ InUpdateStep =>
           /\ train_state.population' = train_state.population
           /\ train_state.curr_agent_idx' = train_state.curr_agent_idx
           /\ train_state.other_agent_idcs' = train_state.other_agent_idcs
           /\ UNCHANGED << config, i, old_param_idx, eval_rng, saved, n_rollouts >>
      /\ pc = "rotate" =>
           /\ old_param_idx = train_state.curr_agent_idx
           /\ DOMAIN train_state.population' = DOMAIN train_state.population
           /\ train_state.population'[old_param_idx] = train_state.params
           /\ \A k \in DOMAIN train_state.population :
                k # old_param_idx =>
                  train_state.population'[k] = train_state.population[k]
    ]_vars

(* a second update step has run on a trainee: one slot holds the parameters *)
(* the first rotation wrote, another still holds its initial entry, and the *)
(* next rotation is about to write                                          *)
C11_Witness ==
  /\ pc = "rotate"
  /\ i >= 1
  /\ train_state.params >= config.population_size
  /\ \E k \in DOMAIN train_state.population :
       train_state.population[k] >= config.population_size
  /\ \E k \in DOMAIN train_state.population :
       train_state.population[k] = k

(* the gradient steps of one iteration *)
StepsPerIteration == config.update_epochs * config.num_minibatches

(* the population slots a rotation has written trained parameters to *)
TrainedSlots ==
  { k \in DOMAIN train_state.population :
      train_state.population[k] >= config.population_size }

(* C12: the rotation replaces params, population, curr_agent_idx and        *)
(* other_agent_idcs and leaves the optimizer state, the step count and the  *)
(* rest of the runner_state as they were; the optimizer count only ever     *)
(* grows, by one per gradient step, and counts the gradient steps of the    *)
(* whole run; the first gradient step after a rotation starts from moment   *)
(* estimates that carry the gradients of the trainees trained before, and   *)
(* adds the new trainee's to them.                                          *)
C12_OptimizerSurvivesRotation ==
  [][ /\ pc = "rotate" =>
           /\ train_state.opt_state' = train_state.opt_state
           /\ train_state.step' = train_state.step
           /\ train_state.curr_agent_idx \in train_state.opt_state.mu
           /\ UNCHANGED << env_state, last_obs, update_step, rng >>
      /\ \/ train_state.opt_state'.count = train_state.opt_state.count
         \/ /\ pc = "update_minbatch"
            /\ train_state.opt_state'.count = train_state.opt_state.count + 1
      /\ train_state.step = train_state.opt_state.count
      /\ pc = "loop" => train_state.opt_state.count = i * StepsPerIteration
      /\ pc = "update_minbatch" =>
           train_state.opt_state'.mu
             = train_state.opt_state.mu \cup {train_state.curr_agent_idx}
      /\ (pc = "update_minbatch" /\ epoch = 0 /\ mb = 0 /\ i >= 1) =>
           /\ train_state.opt_state.count = i * StepsPerIteration
           /\ train_state.opt_state.mu = TrainedSlots
           /\ train_state.opt_state.mu # {}
    ]_vars

(* the first gradient step of a trainee that was never trained before,      *)
(* after a rotation away from another index: every gradient in the moment   *)
(* estimates comes from other trainees                                      *)
C12_Witness ==
  /\ pc = "update_minbatch"
  /\ epoch = 0
  /\ mb = 0
  /\ i >= 1
  /\ train_state.opt_state.count > 0
  /\ train_state.opt_state.mu # {}
  /\ train_state.curr_agent_idx \notin train_state.opt_state.mu

====
